---- MODULE Spec2Model ----
(***************************************************************************)
(* SocketWorker (packages/dubbo/src/consumer/socket-worker.ts): one TCP    *)
(* connection to one dubbo endpoint, with bounded automatic reconnection,  *)
(* heartbeat supervision and dispatch of assembled frames.                 *)
(*                                                                         *)
(* Node delivers every socket event and every timer callback serially, so  *)
(* each handler is one atomic action.  A net.Socket that is destroyed      *)
(* emits its 'close' event later, from the event loop: a handle that       *)
(* _initSocket destroyed and replaced still delivers 'close' to the        *)
(* worker's _onClose, which was registered on it and is never removed.     *)
(* That 'close' is emitted in the event-loop iteration of the destroy,     *)
(* while a connect started then completes in a later one: the 'connect'    *)
(* of a handle never precedes the 'close' of a handle destroyed before it  *)
(* was created.                                                            *)
(***************************************************************************)
EXTENDS Integers, Sequences, FiniteSets, Bags

VARIABLES
    pid, host, port,   \* readonly identity of the worker
    status,            \* this._status
    retry,             \* this._retry
    retryTimeoutId,    \* this._retryTimeoutId: id of the last timer set, 0 = undefined
    timers,            \* ids of the retry timers that are pending in the event loop
    socket,            \* state of the handle this._socket refers to
    old,               \* bag of replaced handles whose 'close' is still to come
    heartBeatTimer,    \* this._heartBeatTimer: which transport its monitor is bound to
    decodeBuff,        \* bytes buffered by this._decodeBuff
    buffered,          \* the handle the bytes in decodeBuff arrived on
    subscriber,        \* this._subscriber
    handler,           \* the handler that ran in the last step
    emitted,           \* calls the last step made on the observer and the monitor
    assembled,         \* frames the frame assembler delivered in the last step
    ret,               \* what the last public call returned or threw
    began,             \* number of connect attempts the last step began
    cancelled,         \* number of pending retry timers the last step cancelled
    nClosure,          \* refused-endpoint scenario: closure events handled so far
    nOnClose,          \* refused-endpoint scenario: onClose notifications so far
    nReset             \* finite-reset scenario: resetRetry calls so far

wvars == <<pid, host, port, status, retry, retryTimeoutId, timers, socket, old,
           heartBeatTimer, decodeBuff, buffered, subscriber, handler, emitted,
           assembled, ret, began, cancelled>>
tally == <<nClosure, nOnClose, nReset>>
vars == <<wvars, tally>>

(***************************************************************************)
(* Program constants and bounds                                            *)
(***************************************************************************)
RETRY_NUM == 20

PADDING == "padding"
CONNECTED == "connected"
RETRY == "retry"
CLOSED == "closed"
SOCKET_STATUS == {PADDING, CONNECTED, RETRY, CLOSED}

MaxPid == 2       \* workers created so far in the process, this one included
MaxOld == 2       \* replaced handles that may still owe their 'close' event
MaxChunk == 3     \* bytes in one 'data' event
MaxResets == 2    \* resetRetry calls in the finite-reset scenario

Hosts == {"127.0.0.1", "10.0.0.2"}
Ports == {20880}
Subscribers == {"noop", "pool", "agent"}

(***************************************************************************)
(* Transport handles (net.Socket)                                          *)
(*   connecting : connect() called, no outcome yet                         *)
(*   open       : 'connect' emitted                                        *)
(*   closing    : destroyed (by destroy() or by a transport error),        *)
(*                'close' not yet emitted                                  *)
(*   closed     : 'close' emitted, no further event                        *)
(***************************************************************************)
\* variant: the handle is left as it is
destroy_kept(s) == s

destroy(s) == IF s \in {"connecting", "open"} THEN "closing" ELSE s

\* a heartbeat monitor runs on the current handle: it connected, and has not closed
Monitored == heartBeatTimer = "socket" /\ socket # "closed"


(***************************************************************************)
(* Collaborators of the worker: frame assembler, wire decoder, heartbeat   *)
(* probe format.  A frame is FrameLen bytes: a flag byte (1 marks the      *)
(* heartbeat event) and a body byte.                                       *)
(***************************************************************************)
Bytes == 0..1
FrameLen == 2

Chunks == UNION {[1..n -> Bytes] : n \in 1..MaxChunk}

RECURSIVE Frames(_)
\* the complete frames at the head of a buffer, in order
Frames(b) ==
    IF Len(b) < FrameLen THEN <<>>
    ELSE <<SubSeq(b, 1, FrameLen)>> \o Frames(SubSeq(b, FrameLen + 1, Len(b)))

\* the partial frame left in the buffer after the complete ones were delivered
Remainder(b) == SubSeq(b, Len(b) - (Len(b) % FrameLen) + 1, Len(b))

isHeartBeat(frame) == frame[1] = 1

decodeDubboResponse(frame) == [res |-> frame[2] + 1]

clearBuffer == <<>>

(***************************************************************************)
(* What the worker calls out to: observer callbacks and the monitor        *)
(***************************************************************************)
info == [pid |-> pid, host |-> host, port |-> port]

\* variant: the observer of the constructor is called, not the subscribed one
Notify_initial(event, arg) == [to |-> "noop", event |-> event, arg |-> arg]

Notify(event, arg) == [to |-> subscriber, event |-> event, arg |-> arg]

MonitorCall(event) == [to |-> "heartBeatTimer", event |-> event]

\* what one step leaves in the per-step observation variables
Step(h, e, a, r, b) ==
    /\ handler' = h
    /\ emitted' = e
    /\ assembled' = a
    /\ ret' = r
    /\ began' = b
    /\ cancelled' = 0

(***************************************************************************)
(* Retry timers: setTimeout / clearTimeout                                 *)
(***************************************************************************)
\* variant: the pending timer is not cancelled
clearTimeout_none(ts, id) == ts

clearTimeout(ts, id) == ts \ {id}

\* the id setTimeout hands out: the least id not pending
setTimeout(ts) ==
    CHOOSE i \in 1..(Cardinality(ts) + 1) :
        i \notin ts /\ \A j \in 1..(i - 1) : j \in ts

(***************************************************************************)
(* _initSocket: destroy the current handle, open a new one                 *)
(***************************************************************************)
\* the handles that still owe a 'close' once the current one is replaced
Replaced ==
    IF destroy(socket) = "closed" THEN old
    ELSE old (+) SetToBag({[state |-> destroy(socket),
                            monitored |-> heartBeatTimer = "socket"]})

_initSocket ==
    /\ BagCardinality(Replaced) <= MaxOld
    /\ old' = Replaced
    /\ socket' = "connecting"
    /\ heartBeatTimer' = IF heartBeatTimer = "socket" THEN "replaced"
                         ELSE heartBeatTimer
    /\ buffered' = IF buffered = "socket" THEN "replaced" ELSE buffered

(***************************************************************************)
(* _onClose: the closure handler, for 'close' of any handle it was         *)
(* registered on and for the heartbeat monitor's onTimeout.  sock is the   *)
(* state of the current handle and olds the replaced handles when the      *)
(* handler runs.                                                           *)
(***************************************************************************)
\* variants of the retry test, each off by one
CanRetry_early == retry > 1

CanRetry_inclusive == retry >= 0

CanRetry == retry > 0

\* variant: the terminal closure is not reported
closeNotification_silent == <<>>

\* this._subscriber.onClose({pid, host, port})
closeNotification == <<Notify("onClose", info)>>

\* variant: the buffer is left as it is
bufferOnClose_kept(buf) == buf

\* this._decodeBuff.clearBuffer()
bufferOnClose(buf) == clearBuffer

_onClose(h, sock, olds) ==
    /\ decodeBuff' = bufferOnClose(decodeBuff)
    /\ buffered' = IF decodeBuff' = <<>> THEN "none" ELSE buffered
    /\ old' = olds
    /\ handler' = h
    /\ assembled' = <<>>
    /\ ret' = "none"
    /\ began' = 0
    /\ IF CanRetry
       THEN /\ status' = RETRY
            /\ LET cleared == clearTimeout(timers, retryTimeoutId)
                   id == setTimeout(cleared)
               IN /\ retryTimeoutId' = id
                  /\ timers' = cleared \cup {id}
                  /\ cancelled' = Cardinality(timers) - Cardinality(cleared)
            /\ socket' = sock
            /\ emitted' = <<>>
       ELSE /\ status' = CLOSED
            /\ socket' = destroy(sock)
            /\ emitted' = closeNotification
            /\ cancelled' = 0
            /\ UNCHANGED <<retryTimeoutId, timers>>
    /\ UNCHANGED <<pid, host, port, retry, heartBeatTimer, subscriber>>

(***************************************************************************)
(* Public methods                                                          *)
(***************************************************************************)
\* variant: available unless terminally closed
isAvaliable_notClosed == status # CLOSED

isAvaliable == status = CONNECTED

isRetry == status = RETRY

\* get status / get isAvaliable / get isRetry
Get ==
    /\ Step("get", <<>>, <<>>,
            [status |-> status, isAvaliable |-> isAvaliable, isRetry |-> isRetry], 0)
    /\ UNCHANGED <<pid, host, port, status, retry, retryTimeoutId, timers, socket,
                   old, heartBeatTimer, decodeBuff, buffered, subscriber>>

subscribe(s) ==
    /\ subscriber' = s
    /\ Step("subscribe", <<>>, <<>>, "this", 0)
    /\ UNCHANGED <<pid, host, port, status, retry, retryTimeoutId, timers, socket,
                   old, heartBeatTimer, decodeBuff, buffered>>

\* what net.Socket.write does with the bytes, by the state of the handle
socketWrite(s) ==
    CASE s = "open" -> "sent"
      [] s = "connecting" -> "queued"
      [] OTHER -> "dropped"

write ==
    /\ IF heartBeatTimer = "undefined"
       THEN Step("write", <<>>, <<>>, "TypeError", 0)
       ELSE Step("write", <<MonitorCall("setWriteTimestamp")>>, <<>>,
                 socketWrite(socket), 0)
    /\ UNCHANGED <<pid, host, port, status, retry, retryTimeoutId, timers, socket,
                   old, heartBeatTimer, decodeBuff, buffered, subscriber>>

\* variant: resetRetry reconnects whenever the worker is not connected
NeedsInit_notConnected == status # CONNECTED

NeedsInit == status = CLOSED

resetRetry ==
    /\ retry' = RETRY_NUM
    /\ IF NeedsInit
       THEN /\ _initSocket
            /\ Step("resetRetry", <<>>, <<>>, "none", 1)
       ELSE /\ Step("resetRetry", <<>>, <<>>, "none", 0)
            /\ UNCHANGED <<socket, old, heartBeatTimer, buffered>>
    /\ UNCHANGED <<pid, host, port, status, retryTimeoutId, timers, decodeBuff,
                   subscriber>>

(***************************************************************************)
(* Handlers of the current handle's events                                 *)
(***************************************************************************)
\* 'connect' of this._socket
_onConnected ==
    /\ socket = "connecting"
    /\ old = EmptyBag
    /\ socket' = "open"
    /\ status' = CONNECTED
    /\ retry' = RETRY_NUM
    /\ heartBeatTimer' = "socket"
    /\ Step("_onConnected", <<Notify("onConnect", info)>>, <<>>, "none", 0)
    /\ UNCHANGED <<pid, host, port, retryTimeoutId, timers, old, decodeBuff,
                   buffered, subscriber>>

\* variant: every frame is decoded and delivered, heartbeat probes included
_onSubscribeDecodeBuff_all(data) == Notify("onData", decodeDubboResponse(data))

\* _onSubscribeDecodeBuff: one call per assembled frame
_onSubscribeDecodeBuff(data) ==
    IF isHeartBeat(data)
    THEN MonitorCall("emit")
    ELSE Notify("onData", decodeDubboResponse(data))

\* 'data' of this._socket: _onData feeds the frame assembler, which delivers
\* every complete frame to _onSubscribeDecodeBuff
_onData(data) ==
    /\ socket = "open"
    /\ LET buf == decodeBuff \o data
           frames == Frames(buf)
       IN /\ decodeBuff' = Remainder(buf)
          /\ buffered' = IF Remainder(buf) = <<>> THEN "none" ELSE "socket"
          /\ Step("_onData",
                  [i \in 1..Len(frames) |-> _onSubscribeDecodeBuff(frames[i])],
                  frames, "none", 0)
    /\ UNCHANGED <<pid, host, port, status, retry, retryTimeoutId, timers, socket,
                   old, heartBeatTimer, subscriber>>

\* 'error' of this._socket: the transport failed and destroyed the handle;
\* _onError only logs
_onError ==
    /\ socket \in {"connecting", "open"}
    /\ socket' = "closing"
    /\ Step("_onError", <<>>, <<>>, "none", 0)
    /\ UNCHANGED <<pid, host, port, status, retry, retryTimeoutId, timers, old,
                   heartBeatTimer, decodeBuff, buffered, subscriber>>

\* 'close' of this._socket: the peer ended an open connection, or a destroyed
\* handle finished closing
SocketClose ==
    /\ socket \in {"open", "closing"}
    /\ _onClose("_onClose", "closed", old)

\* 'close' of a handle that _initSocket destroyed and replaced
OldSocketClose ==
    \E h \in BagToSet(old) :
        _onClose("_onClose", socket, old (-) SetToBag({h}))

\* onTimeout of the monitor bound to this._socket
HeartBeatTimeout ==
    /\ Monitored
    /\ _onClose("onTimeout", socket, old)

\* onTimeout of the monitor of a replaced handle that has not closed yet
OldHeartBeatTimeout ==
    /\ \E h \in BagToSet(old) : h.monitored
    /\ _onClose("onTimeout", socket, old)

\* variant: the callback does not use up a retry
decrement_none(r) == r

\* this._retry--
decrement(r) == r - 1

\* the retry timer's callback
RetryTimer ==
    \E id \in timers :
        /\ timers' = timers \ {id}
        /\ retry' = decrement(retry)
        /\ _initSocket
        /\ Step("retryTimer", <<>>, <<>>, "none", 1)
        /\ UNCHANGED <<pid, host, port, status, retryTimeoutId, decodeBuff,
                       subscriber>>

(***************************************************************************)
(* Specifications                                                          *)
(***************************************************************************)
\* SocketWorker.from(url): the state the constructor leaves
Init ==
    /\ pid \in 1..MaxPid
    /\ host \in Hosts
    /\ port \in Ports
    /\ status = PADDING
    /\ retry = RETRY_NUM
    /\ retryTimeoutId = 0
    /\ timers = {}
    /\ socket = "connecting"
    /\ old = EmptyBag
    /\ heartBeatTimer = "undefined"
    /\ decodeBuff = <<>>
    /\ buffered = "none"
    /\ subscriber = "noop"
    /\ handler = "constructor"
    /\ emitted = <<>>
    /\ assembled = <<>>
    /\ ret = "none"
    /\ began = 1
    /\ cancelled = 0
    /\ nClosure = 0
    /\ nOnClose = 0
    /\ nReset = 0

Untallied(A) == A /\ UNCHANGED tally

Next ==
    \/ Untallied(Get)
    \/ \E s \in Subscribers : Untallied(subscribe(s))
    \/ Untallied(write)
    \/ Untallied(resetRetry)
    \/ Untallied(_onConnected)
    \/ \E data \in Chunks : Untallied(_onData(data))
    \/ Untallied(_onError)
    \/ Untallied(SocketClose)
    \/ Untallied(OldSocketClose)
    \/ Untallied(HeartBeatTimeout)
    \/ Untallied(OldHeartBeatTimeout)
    \/ Untallied(RetryTimer)

Spec == Init /\ [][Next]_vars

(***************************************************************************)
(* The refused-endpoint scenario: every connect attempt fails ('error',    *)
(* then 'close'), nothing ever connects and resetRetry is never called.    *)
(* The tallies count the closure events handled and the onClose            *)
(* notifications delivered over the run.                                   *)
(***************************************************************************)
ClosureHandlers == {"_onClose", "onTimeout"}

OnCloseCalls(calls) ==
    Cardinality({i \in 1..Len(calls) : calls[i].event = "onClose"})

Tallied(A) ==
    /\ A
    /\ nClosure' = nClosure + (IF handler' \in ClosureHandlers THEN 1 ELSE 0)
    /\ nOnClose' = nOnClose + OnCloseCalls(emitted')
    /\ UNCHANGED nReset

NextRefused ==
    \/ \E s \in Subscribers : Tallied(subscribe(s))
    \/ Tallied(_onError /\ socket = "connecting")
    \/ Tallied(SocketClose)
    \/ Tallied(RetryTimer)

SpecRefused == Init /\ [][NextRefused]_vars

(***************************************************************************)
(* The finite-reset scenario: the connection lifecycle with resetRetry     *)
(* called at most MaxResets times.  Fairness: a connect attempt yields     *)
(* 'connect' or 'error', a destroyed handle emits its 'close', and a       *)
(* pending retry timer fires.                                              *)
(***************************************************************************)
Counted(A) ==
    /\ A
    /\ nReset' = nReset + (IF handler' = "resetRetry" THEN 1 ELSE 0)
    /\ UNCHANGED <<nClosure, nOnClose>>

AttemptOutcome == Counted(_onConnected) \/ Counted(_onError /\ socket = "connecting")

DestroyedClose == Counted(SocketClose /\ socket = "closing") \/ Counted(OldSocketClose)

NextLive ==
    \/ Counted(resetRetry /\ nReset < MaxResets)
    \/ Counted(_onConnected)
    \/ Counted(_onError)
    \/ Counted(SocketClose)
    \/ Counted(OldSocketClose)
    \/ Counted(HeartBeatTimeout)
    \/ Counted(OldHeartBeatTimeout)
    \/ Counted(RetryTimer)

SpecLive ==
    /\ Init
    /\ [][NextLive]_vars
    /\ WF_vars(AttemptOutcome)
    /\ WF_vars(DestroyedClose)
    /\ WF_vars(Counted(RetryTimer))


(***************************************************************************)
(* Claims                                                                  *)
(***************************************************************************)
ClosureStep == handler' \in ClosureHandlers

\* C1 (as stated): in the refused-endpoint scenario, after the 20th closure
\* event the status is CLOSED and exactly one onClose has been delivered.
C1_ClosedAfterRetryNumClosures ==
    nClosure >= RETRY_NUM => status = "closed" /\ nOnClose = 1

\* C1 (amended): in the refused-endpoint scenario the worker makes the first
\* attempt and RETRY_NUM retries: up to the 20th closure event the status is
\* not CLOSED and no onClose was delivered; the 21st closure event is the last
\* one, it leaves status CLOSED, and over the whole run exactly one onClose is
\* delivered, to the subscribed observer, carrying the worker's pid, host and
\* port.
C1_ClosedAfterAllRetriesFail ==
    /\ nClosure <= RETRY_NUM + 1
    /\ nClosure <= RETRY_NUM => status # "closed" /\ nOnClose = 0
    /\ nClosure = RETRY_NUM + 1 => status = "closed" /\ nOnClose = 1
    /\ (handler \in ClosureHandlers /\ nClosure = RETRY_NUM + 1) =>
           emitted = <<[to |-> subscriber, event |-> "onClose",
                        arg |-> [pid |-> pid, host |-> host, port |-> port]]>>

C1_Witness ==
    /\ nClosure = RETRY_NUM + 1
    /\ status = "closed"
    /\ nOnClose = 1
    /\ handler = "_onClose"
    /\ subscriber = "pool"

\* C2: a closure event handled while retryCount > 0 leaves status RETRY, and
\* status becomes CLOSED only in a closure handled with retryCount = 0.
C2_ClosureWithBudgetRetries ==
    [][/\ (ClosureStep /\ retry > 0) => status' = "retry"
       /\ status' = "closed" =>
              \/ (ClosureStep /\ retry = 0)
              \/ (~ClosureStep /\ status = "closed")]_vars

C2_Witness ==
    /\ handler = "onTimeout"
    /\ status = "retry"
    /\ retry = 1
    /\ timers # {}

\* C3: retryCount stays within 0..RETRY_NUM; a firing of the retry timer
\* decreases it by exactly 1; every other change of it is a reset to RETRY_NUM
\* made by a successful connect or by resetRetry.
C3_RetryCountBounded ==
    /\ retry \in 0..RETRY_NUM
    /\ [][/\ retry' \in 0..RETRY_NUM
          /\ handler' = "retryTimer" => retry' = retry - 1
          /\ (handler' # "retryTimer" /\ retry' # retry) =>
                 /\ retry' = RETRY_NUM
                 /\ handler' \in {"_onConnected", "resetRetry"}]_vars

C3_Witness == handler = "retryTimer" /\ retry = 0

\* C4: at most one retry timer is pending, and it is the one set last: a
\* closure that sets a timer first cancels the one that was pending.
C4_OneRetryTimer ==
    /\ Cardinality(timers) <= 1
    /\ timers \subseteq {retryTimeoutId}
    /\ cancelled = 1 => handler \in ClosureHandlers /\ timers = {retryTimeoutId}

C4_Witness ==
    /\ handler \in ClosureHandlers
    /\ cancelled = 1
    /\ Cardinality(timers) = 1

\* C5: resetRetry sets retryCount to RETRY_NUM; it begins a connect attempt
\* exactly when status is CLOSED at the call; otherwise status, the transport
\* handle and the pending timer are left as they were.
C5_ResetRetryFrame ==
    [][handler' = "resetRetry" =>
          /\ retry' = RETRY_NUM
          /\ began' = 1 <=> status = "closed"
          /\ status = "closed" => socket' = "connecting"
          /\ status # "closed" =>
                 UNCHANGED <<status, socket, old, timers, retryTimeoutId,
                             heartBeatTimer>>]_vars

C5_Witness ==
    /\ handler = "resetRetry"
    /\ status = "retry"
    /\ timers # {}
    /\ began = 0
    /\ retry = RETRY_NUM

\* C6 (as stated): status never goes from CLOSED to CONNECTED in one step; a
\* resetRetry call in CLOSED moves status to PADDING as it starts the fresh
\* connect attempt.
C6_NoClosedToConnected ==
    [][/\ ~(status = "closed" /\ status' = "connected")
       /\ (handler' = "resetRetry" /\ status = "closed") => status' = "padding"]_vars

\* C7: a handled closure leaves exactly one of: status RETRY with one retry
\* timer pending and no notification, or status CLOSED with no timer pending
\* and one onClose delivered to the observer; an 'error' event changes
\* neither status, retryCount nor the timer.
C7_ClosureNeverIgnored ==
    [][/\ ClosureStep =>
              \/ /\ status' = "retry"
                 /\ Cardinality(timers') = 1
                 /\ emitted' = <<>>
              \/ /\ status' = "closed"
                 /\ timers' = {}
                 /\ emitted' = <<[to |-> subscriber, event |-> "onClose",
                                  arg |-> [pid |-> pid, host |-> host,
                                           port |-> port]]>>
       /\ handler' = "_onError" =>
              UNCHANGED <<status, retry, timers, retryTimeoutId>>]_vars

C7_Witness ==
    /\ handler = "onTimeout"
    /\ status = "closed"
    /\ Len(emitted) = 1
    /\ subscriber = "agent"

\* C8 (as stated): retryCount is RETRY_NUM whenever status is CONNECTED, write
\* never changes it, and a closure handled while status is CONNECTED enters
\* RETRY with retryCount = RETRY_NUM.
C8_FullBudgetWhileConnected ==
    [][/\ status' = "connected" => retry' = RETRY_NUM
       /\ handler' = "write" => retry' = retry
       /\ (ClosureStep /\ status = "connected") =>
              status' = "retry" /\ retry' = RETRY_NUM]_vars

C10_GettersArePure ==
    /\ isAvaliable <=> status = "connected"
    /\ isRetry <=> status = "retry"
    /\ [][/\ isAvaliable' <=> status' = "connected"
          /\ isRetry' <=> status' = "retry"
          /\ handler' = "get" =>
                 /\ ret'.status = status
                 /\ ret'.isAvaliable <=> status = "connected"
                 /\ ret'.isRetry <=> status = "retry"
                 /\ UNCHANGED <<pid, host, port, status, retry, retryTimeoutId,
                                timers, socket, old, heartBeatTimer, decodeBuff,
                                subscriber>>]_vars

C10_Witness ==
    /\ handler = "get"
    /\ ret.isAvaliable
    /\ ~ret.isRetry
    /\ status = "connected"

\* C11 (as stated): a write issued while status is not CONNECTED is never
\* lost without a signal: it throws to the caller, or the bytes go to a handle
\* that can still send them; they are never handed to a torn-down handle.
C11_WriteNeverSilentlyLost ==
    (handler = "write" /\ status # "connected") => ret # "dropped"

\* C12 (as stated): every step that decreases retryCount is taken while status
\* is RETRY.
C12_DecreaseOnlyInRetry ==
    [][retry' < retry => status = "retry"]_vars

\* C13 (as stated): while status is CONNECTED the current handle is the
\* connected one (open, or failed and about to report its closure), never a
\* newer unconnected one; while status is RETRY the transport is not open and
\* a reconnection is scheduled or under way.
C13_StatusMatchesTransport ==
    /\ status = "connected" => socket \in {"open", "closing"}
    /\ status = "retry" =>
           /\ socket # "open"
           /\ timers # {} \/ socket \in {"connecting", "closing"}

\* C14 (as stated): when the monitor of the current handle times out, the
\* handle is torn down: it is no longer open once the callback has run.
C14_TimeoutTearsDown ==
    [][(handler' = "onTimeout" /\ \A h \in BagToSet(old) : ~h.monitored) =>
           socket' # "open"]_vars

\* C15: only the current handle can be open: every handle that was replaced
\* was destroyed first; every connect attempt is begun by a retry-timer
\* firing or by resetRetry, and each firing of the retry timer begins exactly
\* one.
C15_OneOpenHandle ==
    /\ \A h \in BagToSet(old) : h.state = "closing"
    /\ [][/\ \A h \in BagToSet(old') : h.state = "closing"
          /\ handler' = "retryTimer" => began' = 1
          /\ began' \in 0..1
          /\ began' = 1 =>
                 /\ handler' \in {"retryTimer", "resetRetry"}
                 /\ socket' = "connecting"
                 /\ BagCardinality(old') =
                        BagCardinality(old) + (IF socket = "closed" THEN 0 ELSE 1)
          ]_vars

C15_Witness ==
    /\ handler = "retryTimer"
    /\ began = 1
    /\ socket = "connecting"
    /\ \E h \in BagToSet(old) : h.monitored /\ h.state = "closing"

\* C16: a successful connect sets status CONNECTED and retryCount RETRY_NUM,
\* binds a new heartbeat monitor to the current handle, and delivers exactly
\* one onConnect, with the worker's pid, host and port, to the observer that
\* was subscribed last.
C16_ConnectEffects ==
    [][handler' = "_onConnected" =>
          /\ status' = "connected"
          /\ retry' = RETRY_NUM
          /\ socket = "connecting" /\ socket' = "open"
          /\ heartBeatTimer' = "socket"
          /\ emitted' = <<[to |-> subscriber, event |-> "onConnect",
                           arg |-> [pid |-> pid, host |-> host,
                                    port |-> port]]>>]_vars

C16_Witness ==
    /\ handler = "_onConnected"
    /\ subscriber = "agent"
    /\ status = "connected"
    /\ Len(emitted) = 1

\* C17: every handled closure leaves the frame assembler's buffer empty, and
\* bytes received on a connection are never appended to a partial frame that
\* was received on an earlier connection.
C17_NoStalePartialFrame ==
    [][/\ ClosureStep => decodeBuff' = <<>>
       /\ handler' = "_onData" =>
              ~(decodeBuff # <<>> /\ buffered = "replaced")]_vars

C17_Witness ==
    /\ buffered = "replaced"
    /\ decodeBuff # <<>>
    /\ socket = "connecting"

\* C18 (as stated): no retry timer is pending while status is CONNECTED.
C18_NoTimerWhileConnected ==
    status = "connected" => timers = {}

\* C19 (as stated): from CLOSED with the budget used up, every step other
\* than resetRetry leaves status CLOSED, retryCount 0, no timer pending, no
\* connect attempt begun, the handle released, and delivers no onClose and no
\* onConnect.
C19_ClosedIsTerminal ==
    [][(status = "closed" /\ retry = 0 /\ handler' # "resetRetry") =>
          /\ status' = "closed"
          /\ retry' = 0
          /\ timers' = {}
          /\ began' = 0
          /\ socket' \in {"closing", "closed"}
          /\ \A i \in 1..Len(emitted') :
                 emitted'[i].event \notin {"onClose", "onConnect"}]_vars

\* C20: with resetRetry called finitely often, every connect attempt ending
\* in 'connect' or a closure, and pending timers firing, a worker whose status
\* is RETRY or PADDING eventually has status CONNECTED or CLOSED.
C20_RetryEnds ==
    (status \in {"retry", "padding"}) ~> (status \in {"connected", "closed"})

C20_Witness ==
    /\ status = "closed"
    /\ retry = 0
    /\ nReset = MaxResets
    /\ handler = "_onClose"

====
